---- MODULE Spec2Model ----
(***************************************************************************)
(* Evaluation / localization of DnaChisel specifications (objectives).     *)
(*                                                                         *)
(* The objectives are pure functions of the canvas sequence and of their   *)
(* own fields.  Each family of objectives gets a specification whose Init  *)
(* draws a sequence and an objective from bounded sets and whose actions   *)
(* apply evaluate, localized and evaluate-on-the-localized-objective.      *)
(*                                                                         *)
(* Conventions                                                             *)
(*   - Python None is the empty tuple (None below): a window is either     *)
(*     None or a pair <<start, end>>.                                      *)
(*   - gc_window = 0 stands for gc_window=None (global GC content).        *)
(*   - Python lists are sequences; list positions in the code are 0-based, *)
(*     so code index i is element i+1 here.                                *)
(*   - GC bounds are multiples of 1/GCDen; a GC score is the exact rational*)
(*     num/den kept as a record.                                           *)
(*   - An optional number or name given to a constructor is None or the    *)
(*     one-element tuple of the value.                                     *)
(*   - A call of evaluate that raises yields the record [error |-> name]   *)
(*     instead of an evaluation; a constructor that raises yields a record *)
(*     of kind "error".                                                    *)
(*                                                                         *)
(* The specifications that are evaluated on their own location             *)
(* (EnforcePattern, MinimizeDifferences, EnforceMeltingTemperature,        *)
(* CodonOptimize) start from the arguments of their constructor: their     *)
(* actions are the constructor, initialize_on_problem, evaluate, and the   *)
(* same three on the arguments completed with the whole sequence as        *)
(* location.                                                               *)
(***************************************************************************)
EXTENDS Integers, Sequences, FiniteSets, TLC

VARIABLES sequence,    \* canvas.sequence
          spec,        \* the objective under study (self)
          pc,          \* ("new" -> "constructed" ->) "start" -> "evaluated"
                       \* -> "localized" -> "done" or "relocalized"
          result,      \* ObjectiveEvaluation of spec on sequence
          arg,         \* the window passed to localized, or the arguments
                       \* passed to the constructor
          localSpec,   \* spec.localized(arg), or the specification
                       \* constructed on the whole sequence
          localResult, \* ObjectiveEvaluation of localSpec on sequence
          relocalSpec  \* spec.localized(arg).localized(arg)

vars == <<sequence, spec, pc, result, arg, localSpec, localResult,
          relocalSpec>>

-----------------------------------------------------------------------------
(* Bounds of the model *)

\* longest enumerated canvas sequence
MaxLen == 5

\* largest sliding gc_window enumerated
MaxGCWindow == 2

\* GC bounds gc_min, gc_max are given in units of 1/GCDen
GCDen == 10

\* longest enumerated sequence over A, C, G, T for the uniqueness scanner
MaxUniqLen == 5

\* longest enumerated sequence over A, T for the uniqueness scanner
MaxUniqLenAT == 7

\* largest segment length (AvoidNonuniqueSegments.length) enumerated
MaxSegment == 3

\* longest enumerated sequence for the localization of windowed objectives
MaxLocLen == 4

\* longest enumerated coding sequence for EnforceTranslation
MaxGeneLen == 7

\* largest min_align_length of AvoidBlastMatches enumerated
MaxAlign == 2

\* longest sequence given to the specifications evaluated on their location
MaxEvalLen == 6

\* largest number of occurrences asked of a pattern
MaxOccurences == 2

\* longest sequence on which CodonOptimize is localized
MaxCodonLen == 4

-----------------------------------------------------------------------------
(* Python / numpy helpers *)

None == <<>>

Min(a, b) == IF a < b THEN a ELSE b

Max(a, b) == IF a > b THEN a ELSE b

\* sequence[a:b] for 0 <= a, 0 <= b: out-of-range ends are clamped
Slice(s, a, b) ==
    LET lo == Min(a, Len(s))
        hi == Min(b, Len(s))
    IN  IF lo >= hi THEN <<>> ELSE SubSeq(s, lo + 1, hi)

RECURSIVE SumSeq(_)
SumSeq(s) == IF s = <<>> THEN 0 ELSE Head(s) + SumSeq(Tail(s))

\* the sequences over S of length lo..hi
SeqsOf(S, lo, hi) == UNION {[1..n -> S] : n \in lo..hi}

\* all pairs <<start, end>> with 0 <= start < end <= n
NonEmptyWindows(n) == {<<s, e>> : s \in 0..n, e \in 0..n} \ {w \in (0..n) \X (0..n) : w[1] >= w[2]}

\* all pairs <<start, end>> with 0 <= start <= end <= n
Windows(n) == {w \in (0..n) \X (0..n) : w[1] <= w[2]}

-----------------------------------------------------------------------------
(* biotools (not part of the sources at hand) *)

IsGC(b) == b \in {"G", "C"}

\* number of G/C among s
RECURSIVE CountGC(_)
CountGC(s) == IF s = <<>> THEN 0
              ELSE (IF IsGC(Head(s)) THEN 1 ELSE 0) + CountGC(Tail(s))

\* gc_content(sequence, window_size): the GC counts, to be divided by
\* GCDenominator: one global count, or one count per sliding window position
gc_content(s, window_size) ==
    IF window_size = 0
    THEN <<CountGC(s)>>
    ELSE IF Len(s) < window_size THEN <<>>
    ELSE [i \in 1..(Len(s) - window_size + 1) |->
              CountGC(SubSeq(s, i, i + window_size - 1))]

GCDenominator(s, window_size) == IF window_size = 0 THEN Len(s) ELSE window_size

\* windows_overlap(window1, window2): the intersection, None when the two
\* windows share no position (touching windows do not overlap)
windows_overlap(window1, window2) ==
    LET start == Max(window1[1], window2[1])
        end   == Min(window1[2], window2[2])
    IN  IF start < end THEN <<start, end>> ELSE None

Complement(b) ==
    CASE b = "A" -> "T" [] b = "T" -> "A" [] b = "C" -> "G" [] b = "G" -> "C"

\* reverse_complement(sequence)
reverse_complement(s) == [i \in 1..Len(s) |-> Complement(s[Len(s) + 1 - i])]

\* the standard genetic code, codons ordered by base in the order T, C, A, G
GeneticCode ==
    << "F", "F", "L", "L", "S", "S", "S", "S", "Y", "Y", "*", "*", "C", "C", "*", "W",
       "L", "L", "L", "L", "P", "P", "P", "P", "H", "H", "Q", "Q", "R", "R", "R", "R",
       "I", "I", "I", "M", "T", "T", "T", "T", "N", "N", "K", "K", "S", "S", "R", "R",
       "V", "V", "V", "V", "A", "A", "A", "A", "D", "D", "E", "E", "G", "G", "G", "G" >>

BaseIndex(b) == CASE b = "T" -> 0 [] b = "C" -> 1 [] b = "A" -> 2 [] b = "G" -> 3

\* translate(sequence): one amino acid per complete codon
translate(s) ==
    [i \in 1..(Len(s) \div 3) |->
        GeneticCode[16 * BaseIndex(s[3 * i - 2]) + 4 * BaseIndex(s[3 * i - 1])
                    + BaseIndex(s[3 * i]) + 1]]

\* blast_sequence(sequence, blast_db, ...): the hits <<query_start, query_end>>
\* of the query against the database, here the occurrences of its words
blast_sequence(s, blast_db) ==
    {<<i, i + Len(w)>> : i \in 0..Len(s), w \in blast_db} \cap
    {h \in (0..Len(s)) \X (0..Len(s)) :
        \E w \in blast_db : h[2] - h[1] = Len(w) /\ Slice(s, h[1], h[2]) = w}

\* VoidObjective(parent_objective=self)
VoidObjective(parent) == [kind |-> "void", parent |-> parent]

\* Objective.localized(window), the method of the classes that do not
\* define their own: the objective itself
Objective_localized(self, window) == self

\* VoidObjective.evaluate: best possible score, no window
Void_evaluate(self) == [score |-> [num |-> 0, den |-> 1], windows |-> <<>>]

-----------------------------------------------------------------------------
(* EnforceGCContent *)

\* a breach formula that forgets the upper bound
BreachLowerOnly(gmin, gmax, count, den) == Max(0, gmin * den - count * GCDen)

\* breaches = maximum(0, gc_min - gc) + maximum(0, gc - gc_max), in units of
\* 1/(GCDen * den) where gc = count/den, gc_min = gmin/GCDen
Breach(gmin, gmax, count, den) ==
    Max(0, gmin * den - count * GCDen) + Max(0, count * GCDen - gmax * den)

\* (breaches > 0).nonzero()[0]: the 0-based positions in breach, ascending
RECURSIVE NonzeroFrom(_, _)
NonzeroFrom(breaches, i) ==
    IF i > Len(breaches) THEN <<>>
    ELSE IF breaches[i] > 0 THEN <<i - 1>> \o NonzeroFrom(breaches, i + 1)
    ELSE NonzeroFrom(breaches, i + 1)

\* a merge loop that starts a new run as soon as i passes last_end
RECURSIVE MergeBreachesOneWidth(_, _, _, _, _, _)
MergeBreachesOneWidth(rest, current_start, last_end, gc_window, wstart, acc) ==
    IF rest = <<>>
    THEN Append(acc, <<wstart + current_start, wstart + last_end>>)
    ELSE LET i == Head(rest) IN
         IF i > last_end
         THEN MergeBreachesOneWidth(Tail(rest), i, i + gc_window, gc_window,
                  wstart,
                  Append(acc, <<wstart + current_start, wstart + last_end>>))
         ELSE MergeBreachesOneWidth(Tail(rest), current_start, i + gc_window,
                  gc_window, wstart, acc)

\* the loop over breaches_starts[1:] and the final append
RECURSIVE MergeBreaches(_, _, _, _, _, _)
MergeBreaches(rest, current_start, last_end, gc_window, wstart, acc) ==
    IF rest = <<>>
    THEN Append(acc, <<wstart + current_start, wstart + last_end>>)
    ELSE LET i == Head(rest) IN
         IF i > last_end + gc_window
         THEN MergeBreaches(Tail(rest), i, i + gc_window, gc_window, wstart,
                  Append(acc, <<wstart + current_start, wstart + last_end>>))
         ELSE MergeBreaches(Tail(rest), current_start, i + gc_window,
                  gc_window, wstart, acc)

GC_breaches_windows(breaches_starts, gc_window, wstart, wend) ==
    IF Len(breaches_starts) = 0 THEN <<>>
    ELSE IF Len(breaches_starts) = 1
    THEN IF gc_window # 0
         THEN LET start == breaches_starts[1]
              IN  << <<start, start + gc_window>> >>
         ELSE << <<wstart, wend>> >>
    ELSE MergeBreaches(Tail(breaches_starts), breaches_starts[1],
                       breaches_starts[1] + gc_window, gc_window, wstart, <<>>)

\* EnforceGCContent(gc_min, gc_max, gc_window, window)
GC_init(gc_min, gc_max, gc_window, window) ==
    [kind |-> "gc", gc_min |-> gc_min, gc_max |-> gc_max,
     gc_window |-> gc_window, window |-> window]

GC_evaluate(self, s) ==
    LET window == IF self.window = None THEN <<0, Len(s)>> ELSE self.window
        wstart == window[1]
        wend   == window[2]
        sub    == Slice(s, wstart, wend)
        gc     == gc_content(sub, self.gc_window)
        den    == GCDenominator(sub, self.gc_window)
        breaches == [i \in 1..Len(gc) |->
                        Breach(self.gc_min, self.gc_max, gc[i], den)]
        breaches_starts == NonzeroFrom(breaches, 1)
    IN  [score   |-> [num |-> -SumSeq(breaches), den |-> GCDen * den],
         windows |-> GC_breaches_windows(breaches_starts, self.gc_window,
                                         wstart, wend)]

\* a localized that forgets to test the overlap for None
GC_localizedUnchecked(self, window) ==
    IF self.window # None
    THEN [self EXCEPT !.window = windows_overlap(self.window, window)]
    ELSE IF self.gc_window # 0
         THEN [self EXCEPT !.window = <<Max(0, window[1] - self.gc_window),
                                        window[2] + self.gc_window>>]
         ELSE [self EXCEPT !.window = None]

GC_localized(self, window) ==
    IF self.window # None
    THEN LET new_window == windows_overlap(self.window, window)
         IN  IF new_window = None THEN VoidObjective(self)
             ELSE [self EXCEPT !.window = new_window]
    ELSE IF self.gc_window # 0
         THEN [self EXCEPT !.window = <<Max(0, window[1] - self.gc_window),
                                        window[2] + self.gc_window>>]
         ELSE [self EXCEPT !.window = None]

-----------------------------------------------------------------------------
(* AvoidNonuniqueSegments / AvoidNonuniqueKmers (the two evaluate methods    *)
(* are the same code)                                                       *)

\* a scan that also visits the last start position len - length
RangeLenInclusive(n, length) == Max(0, n - length + 1)

\* number of values of range(len(sequence) - self.length)
RangeLen(n, length) == Max(0, n - length)

\* the appends to kmers_locations in the order they are made, each as
\* <<key, <<start, end>>>>: the forward loop, then the reverse-complement loop
NU_records(sub, length, include_reverse_complement) ==
    LET n   == Len(sub)
        rev == reverse_complement(sub)
        m   == RangeLen(n, length)
        fwd == [j \in 1..m |->
                  <<Slice(sub, j - 1, j - 1 + length), <<j - 1, j - 1 + length>> >>]
        bwd == [j \in 1..m |->
                  <<Slice(rev, j - 1, j - 1 + length),
                    <<n - (j - 1 + length), n - (j - 1)>> >>]
    IN  IF include_reverse_complement THEN fwd \o bwd ELSE fwd

\* kmers_locations[key]: the positions appended under key, in order
RECURSIVE NU_positions_list(_, _)
NU_positions_list(records, key) ==
    IF records = <<>> THEN <<>>
    ELSE IF Head(records)[1] = key
         THEN <<Head(records)[2]>> \o NU_positions_list(Tail(records), key)
         ELSE NU_positions_list(Tail(records), key)

\* min(positions_list, key=lambda p: p[0]): the first element of least start
RECURSIVE MinByStart(_)
MinByStart(positions_list) ==
    IF Len(positions_list) = 1 THEN positions_list[1]
    ELSE LET m == MinByStart(Tail(positions_list))
         IN  IF Head(positions_list)[1] <= m[1] THEN Head(positions_list) ELSE m

\* tuple order of Python on pairs
PairLess(p, q) == p[1] < q[1] \/ (p[1] = q[1] /\ p[2] < q[2])

RECURSIVE SortedInsert(_, _)
SortedInsert(sorted, p) ==
    IF sorted = <<>> THEN <<p>>
    ELSE IF PairLess(p, Head(sorted)) THEN <<p>> \o sorted
    ELSE <<Head(sorted)>> \o SortedInsert(Tail(sorted), p)

\* sorted([min(positions_list, ...) for positions_list in
\*         kmers_locations.values() if len(positions_list) > 1])
RECURSIVE NU_windows(_, _)
NU_windows(records, keys) ==
    IF keys = {} THEN <<>>
    ELSE LET key  == CHOOSE k \in keys : TRUE
             rest == NU_windows(records, keys \ {key})
             positions_list == NU_positions_list(records, key)
         IN  IF Len(positions_list) > 1
             THEN SortedInsert(rest, MinByStart(positions_list))
             ELSE rest

NU_evaluate(self, s) ==
    LET window == IF self.window = None THEN <<0, Len(s)>> ELSE self.window
        wstart == window[1]
        wend   == window[2]
        sub    == Slice(s, wstart, wend)
        records == NU_records(sub, self.length, self.include_reverse_complement)
        windows == NU_windows(records,
                              {records[j][1] : j \in 1..Len(records)})
    IN  IF windows = <<>>
        THEN [score |-> [num |-> 1, den |-> 1], windows |-> <<>>]
        ELSE [score |-> [num |-> -Len(windows), den |-> 1],
              windows |-> windows]

\* sorted(...) of a collection of pairs
RECURSIVE SortedPairs(_)
SortedPairs(S) ==
    IF S = {} THEN <<>>
    ELSE LET p == CHOOSE x \in S : TRUE
         IN  SortedInsert(SortedPairs(S \ {p}), p)

-----------------------------------------------------------------------------
(* AvoidBlastMatches *)

Blast_evaluate(self, s) ==
    LET window == IF self.window = None THEN <<0, Len(s)>> ELSE self.window
        wstart == window[1]
        wend   == window[2]
        sub    == Slice(s, wstart, wend)
        hits   == blast_sequence(sub, self.blast_db)
        windows == SortedPairs({<<hit[1] + wstart, hit[2] + wstart>> :
                       hit \in {h \in hits :
                                   h[2] - h[1] >= self.min_align_length}})
    IN  IF windows = <<>>
        THEN [score |-> [num |-> 1, den |-> 1], windows |-> <<>>]
        ELSE [score |-> [num |-> -Len(windows), den |-> 1],
              windows |-> windows]

Blast_localized(self, window) ==
    IF self.window # None
    THEN LET new_window == windows_overlap(self.window, window)
         IN  IF new_window = None THEN VoidObjective(self)
             ELSE [self EXCEPT !.window = new_window]
    ELSE LET radius == self.min_align_length
         IN  [self EXCEPT !.window = <<Max(0, window[1] - radius),
                                       window[2] + radius>>]

-----------------------------------------------------------------------------
(* EnforceRegionsCompatibility.  compatibility_condition(r1, r2, canvas) is  *)
(* any predicate: self.incompatible is the set of pairs <<r1, r2>> on which  *)
(* it is false for the canvas at hand.                                       *)

compatibility_condition(self, r1, r2) == <<r1, r2>> \notin self.incompatible

\* the pairs of itertools.combinations(self.regions, 2), as list positions
Combinations2(n) == {c \in (1..n) \X (1..n) : c[1] < c[2]}

ERC_incompatible_regions_pairs(self) ==
    {c \in Combinations2(Len(self.regions)) :
        ~compatibility_condition(self, self.regions[c[1]], self.regions[c[2]])}

\* Counter(all_regions_with_incompatibility)[region]
ERC_counter(self, region) ==
    Cardinality({c \in ERC_incompatible_regions_pairs(self) :
                    self.regions[c[1]] = region})
    + Cardinality({c \in ERC_incompatible_regions_pairs(self) :
                    self.regions[c[2]] = region})

\* sorted(list(set(all_regions_with_incompatibility)), key=counter.get):
\* the order of a set is not fixed, so every order sorted by count is possible
ERC_windows_outcomes(self) ==
    LET regions == {self.regions[c[1]] : c \in ERC_incompatible_regions_pairs(self)}
                   \cup {self.regions[c[2]] : c \in ERC_incompatible_regions_pairs(self)}
        n == Cardinality(regions)
    IN  {q \in [1..n -> regions] :
            /\ \A i, j \in 1..n : i # j => q[i] # q[j]
            /\ \A i \in 1..(n - 1) :
                  ERC_counter(self, q[i]) <= ERC_counter(self, q[i + 1])}

ERC_evaluate_outcomes(self, s) ==
    {[score |-> [num |-> -Cardinality(ERC_incompatible_regions_pairs(self)),
                 den |-> 1],
      windows |-> q] : q \in ERC_windows_outcomes(self)}

\* the Objective built around the closure evaluate, with the variables the
\* closure captures
ERC_localized(self, window) ==
    LET wstart == window[1]
        wend   == window[2]
        included_regions ==
            SelectSeq(self.regions,
                      LAMBDA r : wstart <= r[1] /\ r[1] <= r[2] /\ r[2] <= wend)
    IN  [kind |-> "compat_localized", parent |-> self,
         included_regions |-> included_regions]

\* the closure evaluate(canvas) of localized
ERC_local_evaluate(self, s) ==
    LET incompatible_regions ==
            {c \in (1..Len(self.parent.regions)) \X (1..Len(self.included_regions)) :
                /\ self.parent.regions[c[1]] # self.included_regions[c[2]]
                /\ ~compatibility_condition(self.parent,
                                            self.included_regions[c[2]],
                                            self.parent.regions[c[1]])}
    IN  [score |-> [num |-> -Cardinality(incompatible_regions), den |-> 1],
         windows |-> <<>>]

-----------------------------------------------------------------------------
(* EnforceTranslation *)

\* EnforceTranslation(window, strand, translation): raises ValueError when
\* the window size is not 3 * len(translation)
ET_init(window, strand, translation) ==
    IF window[2] - window[1] # 3 * Len(translation)
    THEN [kind |-> "error", error |-> "ValueError"]
    ELSE [kind |-> "translation", window |-> window, strand |-> strand,
          translation |-> translation]

ET_evaluate(self, s) ==
    LET window == IF self.window = None THEN <<0, Len(s)>> ELSE self.window
        sub == Slice(s, window[1], window[2])
        subsequence == IF self.strand = -1 THEN reverse_complement(sub) ELSE sub
        success == IF translate(subsequence) = self.translation THEN 1 ELSE -1
    IN  [score |-> [num |-> success, den |-> 1], windows |-> <<>>]

ET_localized(self, window) ==
    IF self.window # None
    THEN LET overlap == windows_overlap(window, self.window)
         IN  IF overlap = None THEN VoidObjective(self)
             ELSE LET o_start == overlap[1]
                      o_end   == overlap[2]
                      w_start == self.window[1]
                      w_end   == self.window[2]
                      start_codon == (o_start - w_start) \div 3
                      end_codon   == (o_end - w_start) \div 3
                      new_window == <<w_start + 3 * start_codon,
                                      Min(w_end, w_start + 3 * (end_codon + 1))>>
                      new_translation ==
                          Slice(self.translation, start_codon, end_codon + 1)
                  IN  ET_init(new_window, self.strand, new_translation)
    ELSE self

-----------------------------------------------------------------------------
(* Location, sequence patterns, melting temperature and codon tables (not   *)
(* part of the sources at hand)                                             *)

Abs(x) == IF x < 0 THEN -x ELSE x

\* an evaluate call that raises e returns no evaluation
Raise(e) == [error |-> e]

\* Location(start, end, strand); strand 0 when none is given
Location(start, end, strand) ==
    [start |-> start, end |-> end, strand |-> strand]

\* Location.from_tuple((start, end))
Location_from_tuple(t) == Location(t[1], t[2], 0)

\* location.extract_sequence(sequence)
extract_sequence(location, s) ==
    LET sub == Slice(s, location.start, location.end)
    IN  IF location.strand = -1 THEN reverse_complement(sub) ELSE sub

\* Specification._copy_with_full_span_if_no_location(problem)
copy_with_full_span_if_no_location(self, s) ==
    IF self.location = None
    THEN [self EXCEPT !.location = Location(0, Len(s), 0)]
    ELSE self

\* pattern.find_matches(sequence, window): the windows of the occurrences of
\* the pattern inside window, by increasing start
RECURSIVE find_matches_from(_, _, _, _)
find_matches_from(pattern, s, i, end) ==
    IF i + Len(pattern) > Min(end, Len(s)) THEN <<>>
    ELSE (IF Slice(s, i, i + Len(pattern)) = pattern
          THEN <<<<i, i + Len(pattern)>>>> ELSE <<>>)
         \o find_matches_from(pattern, s, i + 1, end)

find_matches(pattern, s, window) ==
    find_matches_from(pattern, s, window[1], window[2])

\* sequences_differences(seq1, seq2): number of positions at which two
\* sequences of the same length differ
RECURSIVE sequences_differences(_, _)
sequences_differences(seq1, seq2) ==
    IF seq1 = <<>> \/ seq2 = <<>> THEN 0
    ELSE (IF Head(seq1) # Head(seq2) THEN 1 ELSE 0)
         + sequences_differences(Tail(seq1), Tail(seq2))

\* the melting temperature predictor (primer3.calcTm or Bio's Tm_NN), a
\* function of the subsequence alone: here 2 per A/T and 4 per G/C
predictor(s) == 2 * (Len(s) - CountGC(s)) + 4 * CountGC(s)

\* the codons, as triples of bases
Codons == [1..3 -> {"A", "C", "G", "T"}]

\* CODONS_TRANSLATIONS[codon]
CODONS_TRANSLATIONS(codon) == translate(codon)[1]

\* CODON_USAGE_TABLES[species]: the usage of every codon of a species
CODON_USAGE_TABLES(species) ==
    [codon \in Codons |->
        1 + ((BaseIndex(codon[1]) + 2 * BaseIndex(codon[2])
              + 3 * BaseIndex(codon[3])) % 5)]

\* codon_usage_table[CODONS_TRANSLATIONS[codon]]: the usage of the most used
\* codon of the amino acid of codon
optimal_usage_of(codon_usage_table, codon) ==
    LET synonymous == {c \in Codons :
                          CODONS_TRANSLATIONS(c) = CODONS_TRANSLATIONS(codon)}
    IN  CHOOSE u \in {codon_usage_table[c] : c \in synonymous} :
            \A c \in synonymous : codon_usage_table[c] <= u

-----------------------------------------------------------------------------
(* EnforcePattern *)

\* EnforcePattern(pattern, window, occurences)
EP_init(pattern, window, occurences) ==
    [kind |-> "pattern", pattern |-> pattern, window |-> window,
     occurences |-> occurences]

\* EnforcePattern.evaluate scoring minus the number of matches, whatever the
\* number of occurrences asked for
EP_evaluateCountOnly(self, s) ==
    LET window  == IF self.window = None THEN <<0, Len(s)>> ELSE self.window
        windows == find_matches(self.pattern, s, window)
        score   == -Len(windows)
    IN  [score |-> [num |-> score, den |-> 1],
         windows |-> IF window = None THEN None ELSE <<window>>]

EP_evaluate(self, s) ==
    LET window  == IF self.window = None THEN <<0, Len(s)>> ELSE self.window
        windows == find_matches(self.pattern, s, window)
        score   == -Abs(Len(windows) - self.occurences)
    IN  [score |-> [num |-> score, den |-> 1],
         windows |-> IF window = None THEN None ELSE <<window>>]

-----------------------------------------------------------------------------
(* MinimizeDifferences *)

\* MinimizeDifferences(window, target_sequence)
MD_init(window, target_sequence) ==
    [kind |-> "mindiff", window |-> window,
     reference_sequence |-> target_sequence]

MD_evaluate(self, s) ==
    LET window == IF self.window # None THEN self.window ELSE <<0, Len(s)>>
        start  == window[1]
        end    == window[2]
        subsequence == Slice(s, start, end)
        diffs  == -sequences_differences(subsequence, self.reference_sequence)
    IN  [score |-> [num |-> -diffs, den |-> 1], windows |-> <<window>>]

-----------------------------------------------------------------------------
(* EnforceMeltingTemperature *)

\* EnforceMeltingTemperature(mini, maxi, target, location): an argument that
\* is a number is None or the one-element tuple of the number; a location
\* given as a tuple is the record [tuple |-> <<start, end>>]; the target kept
\* is the exact rational num/den
EMT_init(mini, maxi, target, location) ==
    IF target = None /\ (mini = None \/ maxi = None)
    THEN [kind |-> "error", error |-> "TypeError"]
    ELSE [kind |-> "melting",
          mini |-> IF target # None THEN target[1] ELSE mini[1],
          maxi |-> IF target # None THEN target[1] ELSE maxi[1],
          target |-> IF target # None THEN [num |-> target[1], den |-> 1]
                     ELSE [num |-> mini[1] + maxi[1], den |-> 2],
          location |-> IF "tuple" \in DOMAIN location
                       THEN Location_from_tuple(location.tuple)
                       ELSE location]

EMT_initialize_on_problem(self, s) == copy_with_full_span_if_no_location(self, s)

EMT_evaluate(self, s) ==
    IF self.location = None THEN Raise("AttributeError")
    ELSE LET subsequence == extract_sequence(self.location, s)
             tm == predictor(subsequence)
         IN  [score |-> [num |-> (self.maxi - self.mini) * self.target.den
                                  - 2 * Abs(tm * self.target.den
                                            - self.target.num),
                         den |-> 2 * self.target.den],
              windows |-> <<self.location>>]

-----------------------------------------------------------------------------
(* CodonOptimize: the objective of objectives.py and the specification of   *)
(* specifications/builtin_specifications/CodonOptimize.py                   *)

\* the ValueError raised for a gene that is not made of whole codons
SizeError == "ValueError: size not multiple of 3"

\* [subsequence[3 * i:3 * (i + 1)] for i in range(length / 3)]
CO_codons(subsequence) ==
    [i \in 1..(Len(subsequence) \div 3) |->
        SubSeq(subsequence, 3 * i - 2, 3 * i)]

\* CodonOptimize(organism, window, strand, codon_usage_table) of objectives.py;
\* an organism is None or the one-element tuple of its name
COObj_init(organism, window, strand, codon_usage_table) ==
    LET table == IF organism # None THEN CODON_USAGE_TABLES(organism[1])
                 ELSE codon_usage_table
    IN  IF table = None THEN [kind |-> "error", error |-> "ValueError"]
        ELSE [kind |-> "codonopt_objective", window |-> window,
              strand |-> strand, organism |-> organism,
              codon_usage_table |-> table]

COObj_evaluate(self, s) ==
    LET window == IF self.window # None THEN self.window ELSE <<0, Len(s)>>
        start  == window[1]
        end    == window[2]
        sub    == Slice(s, start, end)
        subsequence == IF self.strand = -1 THEN reverse_complement(sub) ELSE sub
        length == Len(subsequence)
        codons == CO_codons(subsequence)
    IN  IF length % 3 # 0 THEN Raise(SizeError)
        ELSE [score |-> [num |-> SumSeq([i \in 1..Len(codons) |->
                                           self.codon_usage_table[codons[i]]]),
                         den |-> 1],
              windows |-> << <<start, end>> >>]

\* CodonOptimize(species, location, codon_usage_table, boost) of the
\* specifications
CO_init(species, location, codon_usage_table, boost) ==
    LET table == IF species # None THEN CODON_USAGE_TABLES(species[1])
                 ELSE codon_usage_table
    IN  IF table = None THEN [kind |-> "error", error |-> "ValueError"]
        ELSE [kind |-> "codonopt", location |-> location, species |-> species,
              codon_usage_table |-> table, boost |-> boost]

\* CodonOptimize.localized_on_window(new_location, start_codon, end_codon):
\* the constructor is called with the species, the new location and the
\* boost; its codon_usage_table argument is left to its default, None
CO_localized_on_window(self, new_location, start_codon, end_codon) ==
    CO_init(self.species, new_location, None, self.boost)

\* optimal_usage - current_usage, one entry per codon
CO_non_optimality(codon_usage_table, codons) ==
    [i \in 1..Len(codons) |->
        optimal_usage_of(codon_usage_table, codons[i])
          - codon_usage_table[codons[i]]]

\* CodonOptimize.evaluate without its check of the size of the gene
CO_evaluateUnchecked(self, s) ==
    LET location == IF self.location # None THEN self.location
                    ELSE Location(0, Len(s), 0)
        subsequence == extract_sequence(location, s)
        codons == CO_codons(subsequence)
    IN  IF codons = <<>> THEN Raise("ValueError: not enough values to unpack")
        ELSE IF self.location = None THEN Raise("AttributeError")
        ELSE Raise("TypeError")

\* CodonOptimize.evaluate.  After the size check: zip(*[...]) of no codon
\* cannot be unpacked into two arrays; self.location.strand is read on the
\* location the specification was given, None included; np.nonzero returns a
\* tuple, so that 3 * np.nonzero(non_optimality) is that tuple repeated
\* three times, which can neither be subtracted from the integer
\* self.location.end nor be extended in place by the integer
\* self.location.start
CO_evaluate(self, s) ==
    LET location == IF self.location # None THEN self.location
                    ELSE Location(0, Len(s), 0)
        subsequence == extract_sequence(location, s)
        length == Len(subsequence)
        codons == CO_codons(subsequence)
    IN  IF length % 3 # 0 THEN Raise(SizeError)
        ELSE IF codons = <<>> THEN Raise("ValueError: not enough values to unpack")
        ELSE IF self.location = None THEN Raise("AttributeError")
        ELSE Raise("TypeError")

-----------------------------------------------------------------------------
(* Dispatch on the class of the objective *)

evaluate(self, s) ==
    CASE self.kind = "void" -> Void_evaluate(self)
      [] self.kind = "gc"   -> GC_evaluate(self, s)
      [] self.kind = "nonunique" -> NU_evaluate(self, s)
      [] self.kind = "blast" -> Blast_evaluate(self, s)
      [] self.kind = "translation" -> ET_evaluate(self, s)
      [] self.kind = "compat_localized" -> ERC_local_evaluate(self, s)
      [] self.kind = "pattern" -> EP_evaluate(self, s)
      [] self.kind = "mindiff" -> MD_evaluate(self, s)
      [] self.kind = "melting" -> EMT_evaluate(self, s)
      [] self.kind = "codonopt" -> CO_evaluate(self, s)
      [] self.kind = "codonopt_objective" -> COObj_evaluate(self, s)

\* the evaluations a call of evaluate may return
evaluate_outcomes(self, s) ==
    IF self.kind = "compat" THEN ERC_evaluate_outcomes(self, s)
    ELSE {evaluate(self, s)}

localized(self, window) ==
    CASE self.kind = "gc"   -> GC_localized(self, window)
      [] self.kind = "blast" -> Blast_localized(self, window)
      [] self.kind = "translation" -> ET_localized(self, window)
      [] self.kind = "compat" -> ERC_localized(self, window)
      [] self.kind \in {"void", "compat_localized"} ->
             Objective_localized(self, window)

\* the constructor call of the class, on the arguments a
construct(a) ==
    CASE a.kind = "pattern" -> EP_init(a.pattern, a.window, a.occurences)
      [] a.kind = "mindiff" -> MD_init(a.window, a.target_sequence)
      [] a.kind = "melting" -> EMT_init(a.mini, a.maxi, a.target, a.location)
      [] a.kind = "codonopt" ->
             CO_init(a.species, a.location, a.codon_usage_table, a.boost)
      [] a.kind = "codonopt_objective" ->
             COObj_init(a.organism, a.window, a.strand, a.codon_usage_table)
      [] a.kind = "gc" -> GC_init(a.gc_min, a.gc_max, a.gc_window, a.window)

\* the classes that define initialize_on_problem
DefinesInitializeOnProblem(self) == self.kind = "melting"

initialize_on_problem(self, s) ==
    IF DefinesInitializeOnProblem(self) THEN EMT_initialize_on_problem(self, s)
    ELSE self

-----------------------------------------------------------------------------
(* Inputs *)

\* the concrete breach-merging cases: gc_window 5, gc_max 8/GCDen,
\* breaches at 0 and 20, and breaches at 0 and 6
StrGGGGG == <<"G", "G", "G", "G", "G">>
StrAAAAA == <<"A", "A", "A", "A", "A">>
GCExampleSequences ==
    { StrGGGGG \o StrAAAAA \o StrAAAAA \o StrAAAAA \o StrGGGGG,
      StrGGGGG \o <<"A">> \o StrGGGGG }

GCExampleSpecs ==
    { [kind |-> "gc", gc_min |-> 0, gc_max |-> 8,
       gc_window |-> 5, window |-> None] }

GCSequences == SeqsOf({"A", "G"}, 1, MaxLen) \cup {<<"C", "T">>, <<"T", "C", "C">>}

GCLevels == {0, 5, 10}

GCBounds == {b \in GCLevels \X GCLevels : b[1] <= b[2] /\ b # <<0, 10>>}

GCSpecs(n) ==
    {[kind |-> "gc", gc_min |-> b[1], gc_max |-> b[2], gc_window |-> g,
      window |-> w] :
        b \in GCBounds, g \in 0..MaxGCWindow,
        w \in {None} \cup NonEmptyWindows(n)}

\* the scanner example: "AAAAA" + "CCCCC" + "AAAAA", length 5
StrCCCCC == <<"C", "C", "C", "C", "C">>
NUExampleSequences == { StrAAAAA \o StrCCCCC \o StrAAAAA }

NUExampleSpecs ==
    {[kind |-> "nonunique", length |-> 5, window |-> None,
      include_reverse_complement |-> r] : r \in BOOLEAN}

NUSequences == SeqsOf({"A", "C", "G", "T"}, 1, MaxUniqLen)
                 \cup SeqsOf({"A", "T"}, 1, MaxUniqLenAT)

NUSpecs(n) ==
    {[kind |-> "nonunique", length |-> l, window |-> w,
      include_reverse_complement |-> r] :
        l \in 1..MaxSegment, r \in BOOLEAN,
        w \in {None} \cup NonEmptyWindows(n)}

\* objectives with a localized method, on short sequences
LocSequences == SeqsOf({"A", "G"}, 1, MaxLocLen)

BlastDatabases == { {<<"A">>}, {<<"A", "G">>, <<"G", "G", "G">>}, {<<"G">>, <<"A", "A">>} }

BlastSpecs(n) ==
    {[kind |-> "blast", blast_db |-> db, min_align_length |-> m, window |-> w] :
        db \in BlastDatabases, m \in 1..MaxAlign,
        w \in {None} \cup NonEmptyWindows(n)}

\* coding sequences, and genes of whole codons inside them; the translation
\* asked for is the one of the sequence itself or the one of poly-A
GeneSequences == SeqsOf({"A", "G"}, 3, MaxGeneLen)

GeneWindows(n) == {w \in NonEmptyWindows(n) : (w[2] - w[1]) % 3 = 0}

GeneTranslations(s, w, strand) ==
    { translate(IF strand = -1
                THEN reverse_complement(Slice(s, w[1], w[2]))
                ELSE Slice(s, w[1], w[2])),
      [i \in 1..((w[2] - w[1]) \div 3) |-> "K"] }

ETSpecs(s) ==
    UNION {{ET_init(w, strand, tr) : tr \in GeneTranslations(s, w, strand)} :
              w \in GeneWindows(Len(s)), strand \in {1, -1}}

\* lists of two or three distinct regions of a sequence of length n, and the
\* compatibility conditions on them: compatibility is symmetric, and any set
\* of pairs of regions may be incompatible
Regions(n) == NonEmptyWindows(n)

RegionLists(n) ==
    {q \in Regions(n) \X Regions(n) : q[1] # q[2]}
      \cup {q \in Regions(n) \X Regions(n) \X Regions(n) :
                PairLess(q[1], q[2]) /\ PairLess(q[2], q[3])}

Conditions(q) ==
    {{<<q[c[1]], q[c[2]]>> : c \in P} \cup {<<q[c[2]], q[c[1]]>> : c \in P} :
        P \in SUBSET {c \in (1..Len(q)) \X (1..Len(q)) : c[1] < c[2]}}

ERCSpecs(n) ==
    UNION {{[kind |-> "compat", regions |-> q, incompatible |-> inc] :
               inc \in Conditions(q)} : q \in RegionLists(n)}

\* specifications evaluated on their own location: the arguments of their
\* constructors, on sequences of whole and of broken codons
EvalSequences == SeqsOf({"A", "G"}, 1, MaxEvalLen)

\* no window, or a window starting at one of the first two positions
EvalWindows(n) == {None} \cup {w \in NonEmptyWindows(n) : w[1] <= 1}

Patterns == {<<"A">>, <<"A", "G">>}

PatternArgs(n) ==
    {[kind |-> "pattern", pattern |-> p, window |-> w, occurences |-> o] :
        p \in Patterns, w \in EvalWindows(n), o \in 0..MaxOccurences}

\* the references of MinimizeDifferences: the subsequence itself, the
\* subsequence with its first base changed, and poly-A
MDReferences(sub) ==
    {sub, [i \in 1..Len(sub) |-> "A"],
     [i \in 1..Len(sub) |-> IF i = 1 THEN Complement(sub[i]) ELSE sub[i]]}

MDArgs(s) ==
    UNION {{[kind |-> "mindiff", window |-> w, target_sequence |-> r] :
               r \in MDReferences(IF w = None THEN s ELSE Slice(s, w[1], w[2]))} :
              w \in EvalWindows(Len(s))}

\* temperatures given to EnforceMeltingTemperature
TempLevels == {8, 12, 16}

Temps == {<<t>> : t \in TempLevels}

EMTLocations(n) ==
    {None, [tuple |-> <<0, n>>], [tuple |-> <<0, 1>>],
     Location(0, n, 1), Location(0, 1, -1)}

EMTArgs(n) ==
    {[kind |-> "melting", mini |-> b[1], maxi |-> b[2], target |-> t,
      location |-> l] :
        b \in {<<None, None>>} \cup {c \in Temps \X Temps : c[1][1] <= c[2][1]},
        t \in {None} \cup Temps, l \in EMTLocations(n)}

\* a table in which all codons are used alike
FlatTable == [codon \in Codons |-> 1]

\* species and codon usage table: neither, one of them
TableChoices == {<<None, None>>, <<<<"e_coli">>, None>>, <<None, FlatTable>>}

\* the boosts given to CodonOptimize
BoostLevels == {1, 2}

\* the locations given to CodonOptimize on a sequence of length n
COLocations(n) ==
    {Location(w[1], w[2], k) : w \in {v \in Windows(n) : v[1] <= 1},
                               k \in {1, -1}}

COArgs(n) ==
    {[kind |-> "codonopt", species |-> c[1], codon_usage_table |-> c[2],
      location |-> l, boost |-> b] :
        c \in TableChoices, l \in {None} \cup COLocations(n),
        b \in BoostLevels}

\* the CodonOptimize specifications that were constructed without error
COSpecs(n) == {s \in {construct(a) : a \in COArgs(n)} : s.kind # "error"}

\* the sequences on which CodonOptimize is localized
COSequences == SeqsOf({"A", "G"}, 3, MaxCodonLen)

COObjArgs(n) ==
    {[kind |-> "codonopt_objective", organism |-> c[1],
      codon_usage_table |-> c[2], window |-> w, strand |-> k] :
        c \in TableChoices, w \in EvalWindows(n), k \in {1, -1}}

GCArgs(n) == {g \in GCSpecs(n) : g.window = None /\ g.gc_window <= 1}

EvalArgs(s) ==
    PatternArgs(Len(s)) \cup MDArgs(s) \cup EMTArgs(Len(s))
      \cup COArgs(Len(s)) \cup COObjArgs(Len(s)) \cup GCArgs(Len(s))

-----------------------------------------------------------------------------
(* Actions *)

NoResult == [score |-> [num |-> 0, den |-> 1], windows |-> <<>>]

InitGC ==
    /\ \/ /\ sequence \in GCSequences
          /\ spec \in GCSpecs(Len(sequence))
       \/ /\ sequence \in GCExampleSequences
          /\ spec \in GCExampleSpecs
    /\ pc = "start"
    /\ result = NoResult
    /\ arg = None
    /\ localSpec = VoidObjective(None)
    /\ localResult = NoResult
    /\ relocalSpec = VoidObjective(None)

\* spec.evaluate(canvas)
Evaluate ==
    /\ pc = "start"
    /\ result' \in evaluate_outcomes(spec, sequence)
    /\ pc' = "evaluated"
    /\ UNCHANGED <<sequence, spec, arg, localSpec, localResult, relocalSpec>>

\* spec.localized(window)
Localize ==
    /\ pc = "evaluated"
    /\ \E w \in Windows(Len(sequence)) :
          /\ arg' = w
          /\ localSpec' = localized(spec, w)
    /\ pc' = "localized"
    /\ UNCHANGED <<sequence, spec, result, localResult, relocalSpec>>

\* spec.localized(window).evaluate(canvas)
EvaluateLocalized ==
    /\ pc = "localized"
    /\ localSpec.kind # "error"
    /\ localResult' = evaluate(localSpec, sequence)
    /\ pc' = "done"
    /\ UNCHANGED <<sequence, spec, result, arg, localSpec, relocalSpec>>

InitNU ==
    /\ \/ /\ sequence \in NUSequences
          /\ spec \in NUSpecs(Len(sequence))
       \/ /\ sequence \in NUExampleSequences
          /\ spec \in NUExampleSpecs
    /\ pc = "start"
    /\ result = NoResult
    /\ arg = None
    /\ localSpec = VoidObjective(None)
    /\ localResult = NoResult
    /\ relocalSpec = VoidObjective(None)

NextNU == Evaluate

SpecNU == InitNU /\ [][NextNU]_vars

InitLoc ==
    /\ \/ /\ sequence \in LocSequences
          /\ spec \in {g \in GCSpecs(Len(sequence)) : g.gc_window <= 1}
                        \cup BlastSpecs(Len(sequence))
       \/ /\ sequence \in GeneSequences
          /\ spec \in ETSpecs(sequence)
       \/ /\ sequence \in {<<"A", "C", "G">>}
          /\ spec \in ERCSpecs(Len(sequence))
    /\ pc = "start"
    /\ result = NoResult
    /\ arg = None
    /\ localSpec = VoidObjective(None)
    /\ localResult = NoResult
    /\ relocalSpec = VoidObjective(None)

\* spec.localized(window).localized(window)
LocalizeAgain ==
    /\ pc = "localized"
    /\ localSpec.kind # "error"
    /\ relocalSpec' = localized(localSpec, arg)
    /\ pc' = "relocalized"
    /\ UNCHANGED <<sequence, spec, result, arg, localSpec, localResult>>

NextLoc == Evaluate \/ Localize \/ EvaluateLocalized \/ LocalizeAgain

SpecLoc == InitLoc /\ [][NextLoc]_vars

NextGC == Evaluate \/ Localize \/ EvaluateLocalized

SpecGC == InitGC /\ [][NextGC]_vars

\* construction: the arguments of the constructor are in arg
InitEval ==
    /\ sequence \in EvalSequences
    /\ arg \in EvalArgs(sequence)
    /\ pc = "new"
    /\ spec = None
    /\ result = NoResult
    /\ localSpec = VoidObjective(None)
    /\ localResult = NoResult
    /\ relocalSpec = VoidObjective(None)

\* spec = Class(**arg); a constructor that raises yields no specification
Construct ==
    /\ pc = "new"
    /\ spec' = construct(arg)
    /\ pc' = IF spec'.kind = "error" THEN "failed"
             ELSE IF DefinesInitializeOnProblem(spec') THEN "constructed"
             ELSE "start"
    /\ UNCHANGED <<sequence, result, arg, localSpec, localResult, relocalSpec>>

\* spec = spec.initialize_on_problem(problem)
InitializeOnProblem ==
    /\ pc = "constructed"
    /\ spec' = initialize_on_problem(spec, sequence)
    /\ pc' = "start"
    /\ UNCHANGED <<sequence, result, arg, localSpec, localResult, relocalSpec>>

\* the arguments a, with the whole sequence as explicit location
on_whole_sequence(a, s) ==
    CASE a.kind = "melting" -> [a EXCEPT !.location = [tuple |-> <<0, Len(s)>>]]
      [] a.kind = "codonopt" -> [a EXCEPT !.location = Location(0, Len(s), 0)]
      [] OTHER -> [a EXCEPT !.window = <<0, Len(s)>>]

HasNoLocation(a) ==
    IF a.kind \in {"melting", "codonopt"} THEN a.location = None
    ELSE a.window = None

\* for a specification constructed without location: the same specification
\* constructed, and initialized, with the whole sequence as location
ConstructOnWholeSequence ==
    /\ pc = "evaluated"
    /\ HasNoLocation(arg)
    /\ localSpec' = initialize_on_problem(
                        construct(on_whole_sequence(arg, sequence)), sequence)
    /\ pc' = "localized"
    /\ UNCHANGED <<sequence, spec, result, arg, localResult, relocalSpec>>

NextEval ==
    \/ Construct
    \/ InitializeOnProblem
    \/ Evaluate
    \/ ConstructOnWholeSequence
    \/ EvaluateLocalized

SpecEval == InitEval /\ [][NextEval]_vars

\* a CodonOptimize specification that was constructed without error
InitCO ==
    /\ sequence \in COSequences
    /\ spec \in COSpecs(Len(sequence))
    /\ pc = "start"
    /\ result = NoResult
    /\ arg = None
    /\ localSpec = VoidObjective(None)
    /\ localResult = NoResult
    /\ relocalSpec = VoidObjective(None)

\* spec.localized_on_window(new_location, start_codon, end_codon)
LocalizeOnWindow ==
    /\ pc = "evaluated"
    /\ \E new_location \in COLocations(Len(sequence)) :
          /\ arg' = new_location
          /\ \E start_codon \in 0..1, end_codon \in 0..1 :
                localSpec' = CO_localized_on_window(spec, new_location,
                                                    start_codon, end_codon)
    /\ pc' = "localized"
    /\ UNCHANGED <<sequence, spec, result, localResult, relocalSpec>>

NextCO == Evaluate \/ LocalizeOnWindow \/ EvaluateLocalized

SpecCO == InitCO /\ [][NextCO]_vars

-----------------------------------------------------------------------------
(* Reference notions used by the properties of EnforceGCContent, stated on  *)
(* the sequence itself                                                      *)

RECURSIVE SumFun(_, _)
SumFun(f, S) == IF S = {} THEN 0
                ELSE LET x == CHOOSE y \in S : TRUE
                     IN  f[x] + SumFun(f, S \ {x})

ScoreEq(a, b) == a.num * b.den = b.num * a.den

\* start and length of the part of the sequence the objective looks at
RefStart(self) == IF self.window = None THEN 0 ELSE self.window[1]

RefLength(self, s) ==
    IF self.window = None THEN Len(s)
    ELSE Min(self.window[2], Len(s)) - Min(self.window[1], Len(s))

\* width of the stretch whose GC proportion is measured at one position
RefWidth(self, s) == IF self.gc_window = 0 THEN RefLength(self, s)
                     ELSE self.gc_window

\* the positions (relative to the window start) that carry a GC value
RefPositions(self, s) ==
    IF self.gc_window = 0 THEN {0}
    ELSE {i \in 0..RefLength(self, s) : i + self.gc_window <= RefLength(self, s)}

RefCount(self, s, i) ==
    Cardinality({k \in 1..RefWidth(self, s) :
                    s[RefStart(self) + i + k] \in {"G", "C"}})

\* gc_min <= gc[i] <= gc_max
RefWithin(self, s, i) ==
    /\ self.gc_min * RefWidth(self, s) <= RefCount(self, s, i) * GCDen
    /\ RefCount(self, s, i) * GCDen <= self.gc_max * RefWidth(self, s)

RefBreachStarts(self, s) == {i \in RefPositions(self, s) : ~RefWithin(self, s, i)}

\* max(0, gc_min - gc[i]) + max(0, gc[i] - gc_max), times GCDen * width
RefBreach(self, s, i) ==
    LET lack   == self.gc_min * RefWidth(self, s) - RefCount(self, s, i) * GCDen
        excess == RefCount(self, s, i) * GCDen - self.gc_max * RefWidth(self, s)
    IN  (IF lack > 0 THEN lack ELSE 0) + (IF excess > 0 THEN excess ELSE 0)

\* spec.evaluate has just returned (result is not touched afterwards)
Evaluated == pc = "evaluated"

-----------------------------------------------------------------------------
(* C4 *)

\* C4: EnforceGCContent.evaluate returns score = -sum of breach[i] with
\* breach[i] = max(0, gc_min - gc[i]) + max(0, gc[i] - gc_max); the score is 0
\* with no violated window exactly when every position's GC value lies in
\* [gc_min, gc_max].
C4_ScoreZeroIffWithinBounds ==
    (Evaluated /\ spec.kind = "gc") =>
        /\ result.score.den = GCDen * RefWidth(spec, sequence)
        /\ result.score.num =
              - SumFun([i \in RefPositions(spec, sequence) |->
                           RefBreach(spec, sequence, i)],
                       RefPositions(spec, sequence))
        /\ (result.score.num = 0 /\ result.windows = <<>>)
              <=> (\A i \in RefPositions(spec, sequence) :
                      RefWithin(spec, sequence, i))

\* a sliding-window objective evaluated on a sequence with several positions,
\* all within bounds, and scoring 0 without violated windows
C4_Witness ==
    /\ Evaluated /\ spec.kind = "gc" /\ spec.gc_window > 0
    /\ Cardinality(RefPositions(spec, sequence)) >= 3
    /\ \E i \in RefPositions(spec, sequence) : RefCount(spec, sequence, i) > 0
    /\ result.score.num = 0 /\ result.windows = <<>>

-----------------------------------------------------------------------------
(* C5 *)

\* i < j are two consecutive breach-start indices
ConsecutiveBreaches(i, j) ==
    /\ i \in RefBreachStarts(spec, sequence)
    /\ j \in RefBreachStarts(spec, sequence)
    /\ i < j
    /\ ~\E k \in RefBreachStarts(spec, sequence) : i < k /\ k < j

\* i closes one reported window and j opens another one
ReportedSeparately(i, j) ==
    \E a, b \in 1..Len(result.windows) :
        /\ a # b
        /\ result.windows[a][2] = RefStart(spec) + i + spec.gc_window
        /\ result.windows[b][1] = RefStart(spec) + j

\* one reported window holds both; it is [i, j + W] (from the window start)
\* when i and j are the only breaches
ReportedMerged(i, j) ==
    /\ \E a \in 1..Len(result.windows) :
          /\ result.windows[a][1] <= RefStart(spec) + i
          /\ RefStart(spec) + j + spec.gc_window <= result.windows[a][2]
    /\ RefBreachStarts(spec, sequence) = {i, j} =>
          result.windows = << <<RefStart(spec) + i,
                                RefStart(spec) + j + spec.gc_window>> >>

\* C5 as stated: consecutive breach starts i < j are reported separately when
\* j - i is more than W, and merged when j - i is less than W.
C5_SeparateBeyondOneWidth ==
    (Evaluated /\ spec.kind = "gc" /\ spec.gc_window > 0) =>
        \A i, j \in RefPositions(spec, sequence) :
            ConsecutiveBreaches(i, j) =>
                /\ (j - i > spec.gc_window => ReportedSeparately(i, j))
                /\ (j - i < spec.gc_window => ReportedMerged(i, j))

\* C5 amended: consecutive breach starts i < j are reported in two separate
\* windows when j - i is more than 2 W, and in one merged window when j - i is
\* at most 2 W (so W=5: breaches at 0 and 20 give [0,5] and [20,25], breaches
\* at 0 and 6 give [0,11]).
C5_SeparateBeyondTwoWidths ==
    (Evaluated /\ spec.kind = "gc" /\ spec.gc_window > 0) =>
        \A i, j \in RefPositions(spec, sequence) :
            ConsecutiveBreaches(i, j) =>
                /\ (j - i > 2 * spec.gc_window => ReportedSeparately(i, j))
                /\ (j - i <= 2 * spec.gc_window => ReportedMerged(i, j))

\* W=5, breaches at 0 and 20 only: the windows [0,5] and [20,25]
C5_Witness ==
    /\ Evaluated /\ spec.kind = "gc" /\ spec.gc_window = 5
    /\ RefBreachStarts(spec, sequence) = {0, 20}
    /\ result.windows = << <<0, 5>>, <<20, 25>> >>

\* W=5, breaches at 0 and 6 only: the single window [0,11]
C5_MergedExample ==
    /\ Evaluated /\ spec.kind = "gc" /\ spec.gc_window = 5
    /\ RefBreachStarts(spec, sequence) = {0, 6}
    /\ result.windows = << <<0, 11>> >>

-----------------------------------------------------------------------------
(* C6 *)

\* C6: with a sliding gc_window W every violated window is, in full-sequence
\* coordinates, [wstart + first_breach_start, wstart + last_breach_start + W]
\* of a run of breach starts, every breach start lies in a reported window,
\* and one isolated breach index gives exactly one window of length W.
C6_WindowsInSequenceCoordinates ==
    (Evaluated /\ spec.kind = "gc" /\ spec.gc_window > 0) =>
        /\ \A k \in 1..Len(result.windows) :
              \E a, b \in RefBreachStarts(spec, sequence) :
                  /\ a <= b
                  /\ result.windows[k] = <<RefStart(spec) + a,
                                           RefStart(spec) + b + spec.gc_window>>
        /\ \A i \in RefBreachStarts(spec, sequence) :
              \E k \in 1..Len(result.windows) :
                  /\ result.windows[k][1] <= RefStart(spec) + i
                  /\ RefStart(spec) + i + spec.gc_window <= result.windows[k][2]
        /\ Cardinality(RefBreachStarts(spec, sequence)) = 1 =>
              Len(result.windows) = 1

-----------------------------------------------------------------------------
(* C1 *)

\* window W contains every violated window of the evaluation
ContainsAll(W, windows) ==
    \A k \in 1..Len(windows) : W[1] <= windows[k][1] /\ windows[k][2] <= W[2]

\* C1: for EnforceGCContent with a sliding gc_window and a window W that
\* contains all violated windows of S.evaluate, S.localized(W) evaluates to the
\* same score and the same violated windows as S.
C1_LocalizedGCSound ==
    (pc = "done" /\ spec.kind = "gc" /\ spec.gc_window > 0
        /\ ContainsAll(arg, result.windows)) =>
        /\ ScoreEq(localResult.score, result.score)
        /\ localResult.windows = result.windows

-----------------------------------------------------------------------------
(* Reference notions used by the properties of the uniqueness scanner,      *)
(* stated on the sequence itself.  Positions are relative to the start of   *)
(* the objective's window.                                                  *)

\* every start position of a full segment, the last one (len - L) included
SegStarts(self, s) ==
    {i \in 0..RefLength(self, s) : i + self.length <= RefLength(self, s)}

Segment(self, s, i) == [k \in 1..self.length |-> s[RefStart(self) + i + k]]

RevComp(x) == [k \in 1..Len(x) |-> Complement(x[Len(x) + 1 - k])]

\* the earliest start positions of the segments found at two or more starts
FirstOfRepeated(self, s) ==
    {i \in SegStarts(self, s) :
        /\ \E j \in SegStarts(self, s) :
              j # i /\ Segment(self, s, j) = Segment(self, s, i)
        /\ \A j \in SegStarts(self, s) :
              j < i => Segment(self, s, j) # Segment(self, s, i)}

\* occurrences the scan records under key x: segments equal to x at the
\* starts in [0, len - L), and, with reverse complements included, the
\* segments whose reverse complement is x as seen by the scan of the
\* reverse-complemented window (forward starts in (0, len - L])
RecordedCount(self, s, x) ==
    Cardinality({i \in SegStarts(self, s) :
                    /\ i + self.length < RefLength(self, s)
                    /\ Segment(self, s, i) = x})
    + (IF self.include_reverse_complement
       THEN Cardinality({i \in SegStarts(self, s) :
                            i >= 1 /\ RevComp(Segment(self, s, i)) = x})
       ELSE 0)

RepeatedKeys(self, s) ==
    {x \in {Segment(self, s, i) : i \in SegStarts(self, s)}
            \cup {RevComp(Segment(self, s, i)) : i \in SegStarts(self, s)} :
        RecordedCount(self, s, x) > 1}

-----------------------------------------------------------------------------
(* C7 *)

\* C7: without reverse complements the scanner reports every segment found
\* at two or more start positions (the last start position len - L included)
\* exactly once, by its earliest occurrence, sorted ascending, and scores
\* minus their number ("AAAAA"+"CCCCC"+"AAAAA", L=5: window (0,5), score -1).
C7_RepeatsReportedByFirstOccurrence ==
    (Evaluated /\ spec.kind = "nonunique" /\ ~spec.include_reverse_complement) =>
        LET first == FirstOfRepeated(spec, sequence) IN
        /\ Len(result.windows) = Cardinality(first)
        /\ \A i \in first : \E k \in 1..Len(result.windows) :
              result.windows[k] = <<i, i + spec.length>>
        /\ \A k \in 1..(Len(result.windows) - 1) :
              result.windows[k][1] < result.windows[k + 1][1]
        /\ first # {} => result.score.num = -Cardinality(first)

\* the concrete case of C7, on its own
C7_Example ==
    (Evaluated /\ spec.kind = "nonunique" /\ ~spec.include_reverse_complement
       /\ sequence = StrAAAAA \o StrCCCCC \o StrAAAAA /\ spec.length = 5) =>
        /\ result.windows = << <<0, 5>> >>
        /\ result.score.num = -1

-----------------------------------------------------------------------------
(* C8 *)

\* C8 as stated: the score is minus the number of repeated keys, 0 when no
\* key is repeated.
C8_ScoreIsMinusRepeatedKeys ==
    (Evaluated /\ spec.kind = "nonunique") =>
        /\ result.score.den = 1
        /\ result.score.num = -Cardinality(RepeatedKeys(spec, sequence))

\* C8 amended: the score is minus the number of repeated keys when some key is
\* repeated, and 1 when no key is repeated.
C8_ScoreIsMinusRepeatedKeysOrOne ==
    (Evaluated /\ spec.kind = "nonunique") =>
        /\ result.score.den = 1
        /\ result.score.num =
              IF RepeatedKeys(spec, sequence) = {} THEN 1
              ELSE -Cardinality(RepeatedKeys(spec, sequence))

\* reverse complements included, several repeated keys, score below -1
C8_Witness ==
    /\ Evaluated /\ spec.kind = "nonunique" /\ spec.include_reverse_complement
    /\ spec.window # None /\ spec.length >= 2
    /\ Cardinality(RepeatedKeys(spec, sequence)) >= 2
    /\ result.score.num = -Cardinality(RepeatedKeys(spec, sequence))

-----------------------------------------------------------------------------
(* C9 *)

\* the window holds a segment at i and its reverse complement at p, no
\* segment is its own reverse complement, and no other two starts hold equal
\* or reverse-complementary segments
OnlyOneRevCompPair(self, s) ==
    \E i, p \in SegStarts(self, s) :
        /\ i # p
        /\ Segment(self, s, p) = RevComp(Segment(self, s, i))
        /\ \A a \in SegStarts(self, s) :
              Segment(self, s, a) # RevComp(Segment(self, s, a))
        /\ \A a, b \in SegStarts(self, s) :
              (a < b /\ (Segment(self, s, a) = Segment(self, s, b)
                          \/ Segment(self, s, a) = RevComp(Segment(self, s, b))))
                  => {a, b} = {i, p}

\* C9: with reverse complements included, a segment occurring once and its
\* reverse complement occurring once elsewhere (no other repeats) give
\* exactly one violated window and score -1.
C9_RevCompPairIsOneKey ==
    (Evaluated /\ spec.kind = "nonunique" /\ spec.include_reverse_complement
        /\ OnlyOneRevCompPair(spec, sequence)) =>
        /\ Len(result.windows) = 1
        /\ result.score.num = -1

-----------------------------------------------------------------------------
(* C10 *)

\* C10: every violated window (start, end) of the scanner satisfies
\* wstart <= start < end <= wend for the objective's window (wstart, wend),
\* the whole sequence when the window is None.
C10_WindowsInsideOwnWindow ==
    (Evaluated /\ spec.kind = "nonunique") =>
        LET wstart == RefStart(spec)
            wend   == IF spec.window = None THEN Len(sequence)
                      ELSE spec.window[2]
        IN  \A k \in 1..Len(result.windows) :
               /\ wstart <= result.windows[k][1]
               /\ result.windows[k][1] < result.windows[k][2]
               /\ result.windows[k][2] <= wend

-----------------------------------------------------------------------------
(* C2 *)

\* the location of an objective with a window field
OwnLocation(self, s) == IF self.window = None THEN <<0, Len(s)>> ELSE self.window

\* window W fully covers the objective's own location (every region, for
\* EnforceRegionsCompatibility)
Covers(W, self, s) ==
    IF self.kind = "compat"
    THEN \A i \in 1..Len(self.regions) :
            W[1] <= self.regions[i][1] /\ self.regions[i][2] <= W[2]
    ELSE W[1] <= OwnLocation(self, s)[1] /\ OwnLocation(self, s)[2] <= W[2]

\* the unordered pairs of regions (of the list) that are incompatible
IncompatiblePairs(self) ==
    {c \in (1..Len(self.regions)) \X (1..Len(self.regions)) :
        c[1] < c[2] /\ <<self.regions[c[1]], self.regions[c[2]]>> \in self.incompatible}

\* C2: for a window W that fully covers the location of S, S.localized(W)
\* evaluates to the same score as S; for EnforceRegionsCompatibility the
\* localized score is minus the number of incompatible unordered region pairs.
C2_LocalizedCoveringSameScore ==
    (pc = "done" /\ Covers(arg, spec, sequence)) =>
        /\ ScoreEq(localResult.score, result.score)
        /\ spec.kind = "compat" =>
              localResult.score.num = -Cardinality(IncompatiblePairs(spec))

-----------------------------------------------------------------------------
(* C3 *)

\* the two windows share a position of the sequence
SharePosition(w1, w2) ==
    \E x \in 0..Max(w1[2], w2[2]) :
        w1[1] <= x /\ x < w1[2] /\ w2[1] <= x /\ x < w2[2]

\* C3: for EnforceGCContent, AvoidBlastMatches and EnforceTranslation with an
\* explicit window, localized(W) is the void objective (best possible score,
\* no violated window) when W does not overlap the window, and is never the
\* void objective when W overlaps it.
C3_VoidIffDisjoint ==
    (pc \in {"localized", "done"}
        /\ spec.kind \in {"gc", "blast", "translation"}
        /\ spec.window # None) =>
        /\ localSpec.kind = "void" <=> ~SharePosition(spec.window, arg)
        /\ (pc = "done" /\ ~SharePosition(spec.window, arg)) =>
              /\ localResult.score.num = 0
              /\ localResult.windows = <<>>

\* an EnforceTranslation localized to a non-empty window that starts where
\* its own window ends: void, and evaluated
C3_Witness ==
    /\ pc = "done" /\ spec.kind = "translation"
    /\ arg[1] = spec.window[2] /\ arg[1] < arg[2]
    /\ localSpec.kind = "void"
    /\ localResult.windows = <<>>

-----------------------------------------------------------------------------
(* Specifications evaluated on their own location *)

\* the call of evaluate returned an evaluation (it did not raise)
Returns(r) == "score" \in DOMAIN r

\* the score is at least the best possible score, 0
FullySatisfied(r) == r.score.num >= 0

\* C11: the list of violated windows of an evaluation is empty exactly when
\* the specification is fully satisfied (its score is at least the best
\* possible score): for EnforcePattern when the number of matches is the one
\* asked for, for EnforceMeltingTemperature when Tm lies within [mini, maxi],
\* for MinimizeDifferences when there is no difference
C11_WindowsEmptyIffSatisfied ==
    (/\ Evaluated
     /\ spec.kind \in {"pattern", "melting", "mindiff", "gc"}
     /\ Returns(result))
        => (result.windows = <<>> <=> FullySatisfied(result))

\* the window a pattern or difference objective looks at
OwnWindow(self, s) == IF self.window = None THEN <<0, Len(s)>> ELSE self.window

\* number of occurrences of the pattern that lie within the window
MatchCount(self, s) ==
    Cardinality({i \in 0..Len(s) :
                    /\ OwnWindow(self, s)[1] <= i
                    /\ i + Len(self.pattern) <= Min(OwnWindow(self, s)[2], Len(s))
                    /\ SubSeq(s, i + 1, i + Len(self.pattern)) = self.pattern})

\* C12: EnforcePattern.evaluate returns the score
\* -|number of matches in the window - occurences|: 0 exactly when the number
\* of matches is the one asked for, and -1 for two matches when one is asked
C12_PatternScore ==
    (Evaluated /\ spec.kind = "pattern")
        => /\ Returns(result)
           /\ result.score =
                 [num |-> -Abs(MatchCount(spec, sequence) - spec.occurences),
                  den |-> 1]
           /\ (result.score.num = 0
                  <=> MatchCount(spec, sequence) = spec.occurences)
           /\ (spec.occurences = 1 /\ MatchCount(spec, sequence) = 2
                  => result.score.num = -1)

\* one occurrence asked for, two found
C12_Witness ==
    /\ Evaluated
    /\ spec.kind = "pattern"
    /\ spec.occurences = 1
    /\ MatchCount(spec, sequence) = 2
    /\ result.score.num = -1

\* the gene a codon optimization looks at, read on its strand
Gene(self, s) ==
    IF self.kind = "codonopt"
    THEN extract_sequence(IF self.location = None THEN Location(0, Len(s), 0)
                          ELSE self.location, s)
    ELSE LET sub == Slice(s, OwnWindow(self, s)[1], OwnWindow(self, s)[2])
         IN  IF self.strand = -1 THEN reverse_complement(sub) ELSE sub

IsCodonOptimize(self) == self.kind \in {"codonopt", "codonopt_objective"}

\* the gene is made of whole codons, at least one
WholeCodons(self, s) == Len(Gene(self, s)) % 3 = 0 /\ Len(Gene(self, s)) > 0

\* what each codon of the gene loses against the most used codon of its
\* amino acid
NonOptimality(self, s) ==
    CO_non_optimality(self.codon_usage_table, CO_codons(Gene(self, s)))

AllOptimal(self, s) ==
    \A i \in 1..Len(NonOptimality(self, s)) : NonOptimality(self, s)[i] = 0

\* C13: on a gene of whole codons CodonOptimize.evaluate returns minus the
\* sum over the codons of (usage of the most used synonymous codon - usage of
\* the codon), a score that is never positive; a gene whose codons are all
\* optimal scores exactly 0 and has no violated window
C13_CodonScore ==
    (Evaluated /\ IsCodonOptimize(spec) /\ WholeCodons(spec, sequence))
        => /\ Returns(result)
           /\ result.score =
                 [num |-> -SumSeq(NonOptimality(spec, sequence)), den |-> 1]
           /\ result.score.num <= 0
           /\ (AllOptimal(spec, sequence)
                  => result.score.num = 0 /\ result.windows = <<>>)

\* number of bases of the sequence inside the window or location of a codon
\* optimization
GeneLength(self, s) ==
    IF self.kind = "codonopt"
    THEN (IF self.location = None THEN Len(s)
          ELSE Min(self.location.end, Len(s)) - Min(self.location.start, Len(s)))
    ELSE Min(OwnWindow(self, s)[2], Len(s)) - Min(OwnWindow(self, s)[1], Len(s))

GeneStrand(self) ==
    IF self.kind = "codonopt"
    THEN (IF self.location = None THEN 0 ELSE self.location.strand)
    ELSE self.strand

\* C14: CodonOptimize.evaluate on a window, or a whole sequence, whose length
\* is not a multiple of 3 raises the size error and returns no evaluation, on
\* either strand; when the length is a multiple of 3 this error is not raised
C14_SizeErrorIffBrokenCodons ==
    (Evaluated /\ IsCodonOptimize(spec))
        => ((~Returns(result) /\ result.error = SizeError)
              <=> GeneLength(spec, sequence) % 3 # 0)

\* a gene of four bases on the reverse strand
C14_Witness ==
    /\ Evaluated
    /\ IsCodonOptimize(spec)
    /\ GeneStrand(spec) = -1
    /\ GeneLength(spec, sequence) = 4
    /\ result = Raise(SizeError)

\* the constructor was given a target together with a mini and a maxi whose
\* midpoint is not the target
ContradictoryTarget(a) ==
    /\ a.kind = "melting"
    /\ a.target # None /\ a.mini # None /\ a.maxi # None
    /\ 2 * a.target[1] # a.mini[1] + a.maxi[1]

\* C15: constructing EnforceMeltingTemperature with a target and with mini
\* and maxi whose midpoint differs from the target fails at construction: no
\* specification is produced
C15_ContradictoryTargetRejected ==
    (pc # "new" /\ ContradictoryTarget(arg)) => spec.kind = "error"

\* both the specification and its counterpart on the whole sequence have
\* been evaluated
BothEvaluated == pc = "done"

\* C16: a specification constructed without location behaves as the same
\* specification constructed with the location (0, length of the sequence):
\* after initialize_on_problem, where the class defines it, evaluate has the
\* same outcome, score and violated windows, for EnforceMeltingTemperature,
\* CodonOptimize and EnforceGCContent
C16_NoLocationIsWholeSequence ==
    (/\ BothEvaluated
     /\ spec.kind \in {"melting", "codonopt", "gc"}
     /\ HasNoLocation(arg))
        => result = localResult

\* the part of the sequence MinimizeDifferences compares with its reference
Compared(self, s) == Slice(s, OwnWindow(self, s)[1], OwnWindow(self, s)[2])

\* number of positions at which two sequences of the same length differ
DifferingPositions(a, b) == Cardinality({i \in 1..Len(a) : a[i] # b[i]})

\* C17: the score of MinimizeDifferences.evaluate is never above the best
\* possible score 0, is 0 exactly when the subsequence is the reference, and
\* is strictly lower for a reference that differs at more positions
C17_DifferencesScore ==
    (Evaluated /\ spec.kind = "mindiff")
        => /\ Returns(result)
           /\ result.score.num <= 0
           /\ (result.score.num = 0
                  <=> Compared(spec, sequence) = spec.reference_sequence)
           /\ \A r \in MDReferences(Compared(spec, sequence)) :
                  DifferingPositions(Compared(spec, sequence), r)
                    > DifferingPositions(Compared(spec, sequence),
                                         spec.reference_sequence)
                  => MD_evaluate([spec EXCEPT !.reference_sequence = r],
                                 sequence).score.num < result.score.num

\* the positions of the sequence, as <<start, end>>, of the i-th codon of the
\* gene of a codon optimization with a location
CodonPositions(self, i) ==
    IF self.location.strand = -1
    THEN <<self.location.end - 3 * i, self.location.end - 3 * (i - 1)>>
    ELSE <<self.location.start + 3 * (i - 1), self.location.start + 3 * i>>

\* C20: on a gene of whole codons, on strand +1 or -1, CodonOptimize.evaluate
\* reports violated Locations each of which has start <= end and lies within
\* the location of the specification, and which cover the three bases of
\* every codon that is not optimal, a lone one included
C20_ViolatedLocationsCoverCodons ==
    (/\ Evaluated
     /\ spec.kind = "codonopt"
     /\ spec.location # None
     /\ WholeCodons(spec, sequence))
        => /\ Returns(result)
           /\ \A k \in 1..Len(result.windows) :
                  /\ result.windows[k].start <= result.windows[k].end
                  /\ spec.location.start <= result.windows[k].start
                  /\ result.windows[k].end <= spec.location.end
           /\ \A i \in 1..Len(NonOptimality(spec, sequence)) :
                  NonOptimality(spec, sequence)[i] # 0
                  => \E k \in 1..Len(result.windows) :
                        /\ result.windows[k].start
                              <= CodonPositions(spec, i)[1]
                        /\ CodonPositions(spec, i)[2]
                              <= result.windows[k].end

-----------------------------------------------------------------------------
(* Localization *)

\* two localized objectives look at the same window: both void, or the same
\* class with the same window
SameWindow(a, b) ==
    /\ a.kind = b.kind
    /\ a.kind # "void" => a.window = b.window

Relocalized == pc = "relocalized"

\* C18: localization is idempotent: for EnforceGCContent and
\* AvoidBlastMatches, with or without a window of their own, and any window
\* W, S.localized(W).localized(W) has the same window as S.localized(W), and
\* so evaluates like it on the sequence
C18_LocalizationIdempotent ==
    (Relocalized /\ spec.kind \in {"gc", "blast"})
        => /\ SameWindow(relocalSpec, localSpec)
           /\ evaluate(relocalSpec, sequence) = evaluate(localSpec, sequence)

\* spec is an EnforceTranslation that has been localized on a window that
\* overlaps its own
TranslationLocalized ==
    /\ pc \in {"localized", "done"}
    /\ spec.kind = "translation"
    /\ windows_overlap(arg, spec.window) # None

\* the localized EnforceTranslation was constructed, on a window of whole
\* codons of the gene that contains the overlap and lies in the gene
LocalizedOnWholeCodons ==
    /\ localSpec.kind = "translation"
    /\ localSpec.window[2] - localSpec.window[1]
          = 3 * Len(localSpec.translation)
    /\ (localSpec.window[1] - spec.window[1]) % 3 = 0
    /\ localSpec.window[1] <= windows_overlap(arg, spec.window)[1]
    /\ windows_overlap(arg, spec.window)[2] <= localSpec.window[2]
    /\ spec.window[1] <= localSpec.window[1]
    /\ localSpec.window[2] <= spec.window[2]

\* C19: for an EnforceTranslation S, on either strand, and a window W that
\* overlaps the window of S, S.localized(W) is constructed without error (its
\* window has 3 positions per amino acid of its translation, is aligned on
\* the codons of S, contains the overlap and lies within the window of S),
\* and a sequence that satisfies S also satisfies S.localized(W)
C19_LocalizedTranslationSound ==
    TranslationLocalized
        => /\ LocalizedOnWholeCodons
           /\ (pc = "done" /\ result.score.num = 1)
                 => localResult.score.num = 1

\* spec is a CodonOptimize on which localized_on_window(arg, ...) was called
LocalizedOnWindow ==
    pc \in {"localized", "done"} /\ spec.kind = "codonopt"

\* C21: for a CodonOptimize constructed without error, from the name of a
\* species or from a codon usage table alone, localized_on_window does not
\* raise and returns a specification with the same codon usage table, the
\* same boost and the new location
C21_LocalizedOnWindowKeepsTable ==
    LocalizedOnWindow
        => /\ localSpec.kind = "codonopt"
           /\ localSpec.codon_usage_table = spec.codon_usage_table
           /\ localSpec.boost = spec.boost
           /\ localSpec.location = arg
====
